---- MODULE Spec2Model ----
(***************************************************************************)
(* Model of eda_app.py: one Streamlit script that loads an uploaded file   *)
(* through an encoding cascade, profiles the table, draws four on-screen   *)
(* charts and builds a PDF report (create_pdf).                            *)
(*                                                                         *)
(* An uploaded file is a sequence of lines.  A line carries the class of   *)
(* its bytes ("ok": ASCII, "hi": a byte such as 0xE9 that is not UTF-8 but *)
(* is Latin-1/cp1252, "quote": an unterminated quoted field, which the     *)
(* parser reports at end of input under every encoding) and a row key from *)
(* which the cells of the row are derived per column.  Every line is a     *)
(* record of the right width, so on_bad_lines="skip" drops nothing here.   *)
(***************************************************************************)
EXTENDS Integers, Sequences, FiniteSets, TLC

\* ---------------------------------------------------------------- bounds
MaxCols == 3
MaxRows == 3
LongRows == 22
MaxRuns == 2

RowKeys == {1, 2}
ColKinds == {"num", "cat", "null"}

\* ------------------------------------------------------- program constants
\* dup_table[:20]
DupSlice == 20

encodings_to_try == <<"utf-8", "utf-8-sig", "latin1", "ISO-8859-1", "cp1252">>

\* ------------------------------------------------------------------ tables
SeqsUpTo(S, n) == UNION {[1..k -> S] : k \in 0..n}

Schemas == SeqsUpTo(ColKinds, MaxCols) \ {<<>>}

\* Layouts with a True/False column, which is neither numeric nor object.
BoolSchemas == {<<"bool">>, <<"bool", "num">>, <<"cat", "bool">>, <<"bool", "null">>}

KeySeqs == SeqsUpTo(RowKeys, MaxRows)

\* The cell a row with key k holds in a column of kind c.
Cell(c, k) ==
    CASE c = "num" -> [t |-> "num", v |-> k]
      [] c = "cat" -> [t |-> "str", v |-> k]
      [] c = "bool" -> [t |-> "bool", v |-> k % 2]
      [] OTHER     -> [t |-> "nan", v |-> 0]

Row(cols, k) == [c \in 1..Len(cols) |-> Cell(cols[c], k)]

NoTable == [src |-> "none", start |-> 0, cols |-> <<>>, keys |-> <<>>]

Rows(d) == [i \in 1..Len(d.keys) |-> Row(d.cols, d.keys[i])]

Column(d, c) == [i \in 1..Len(d.keys) |-> Rows(d)[i][c]]

\* ------------------------------------------------------------------- files
TextLines(keys, bad, cls) ==
    [i \in 1..(Len(keys) + 1) |->
        [cls |-> IF i = bad THEN cls ELSE "ok",
         key |-> IF i = 1 THEN 0 ELSE keys[i - 1]]]

CsvFile(cols, keys, bad, cls) ==
    [kind |-> "csv", cols |-> cols, lines |-> TextLines(keys, bad, cls),
     sheetCols |-> <<>>, sheetKeys |-> <<>>]

Alternating(n) == [i \in 1..n |-> IF i % 2 = 1 THEN 1 ELSE 2]

CleanFiles == {CsvFile(c, k, 0, "ok") : c \in Schemas \cup BoolSchemas, k \in KeySeqs}

LongFiles == {CsvFile(<<"num">>, Alternating(n), 0, "ok") : n \in (MaxRows + 1)..LongRows}

DirtyFiles ==
    UNION {{CsvFile(<<"num", "cat">>, k, b, cls) : b \in 1..(Len(k) + 1)} :
              k \in KeySeqs, cls \in {"hi", "quote"}}

EmptyFiles == {[kind |-> "csv", cols |-> <<>>, lines |-> <<>>,
                sheetCols |-> <<>>, sheetKeys |-> <<>>]}

\* A workbook is a zip archive: as text its lines are not UTF-8.
XlsxFiles ==
    {[kind |-> "xlsx", cols |-> <<"cat">>,
      lines |-> [i \in 1..n |-> [cls |-> "hi", key |-> i]],
      sheetCols |-> c, sheetKeys |-> <<1, 2, 1>>] :
         c \in Schemas, n \in 1..MaxRows}

Files == CleanFiles \cup LongFiles \cup DirtyFiles \cup EmptyFiles \cup XlsxFiles

\* ------------------------------------------------------------------- state
VARIABLES
    file,             \* uploaded_file: the bytes
    pos,              \* uploaded_file: the stream position, in lines
    enc_idx,          \* index of enc in encodings_to_try
    attempts,         \* the load attempts made in this run, in order
    df,
    screen,           \* what the run has written to the page, in order
    missing,
    duplicate_count,
    dup_rows,         \* row numbers written by st.write(df[df.duplicated()])
    numeric_cols,
    cat_cols,
    hist_col,         \* the column of the on-screen histogram, 0 if none
    figures,          \* figures open in pyplot (process-wide)
    pdf_data,         \* the blocks of the built document, <<>> before
    pc,
    runs

vars == <<file, pos, enc_idx, attempts, df, screen, missing, duplicate_count,
          dup_rows, numeric_cols, cat_cols, hist_col, figures, pdf_data, pc, runs>>

Init ==
    /\ file \in Files
    /\ pos = 0
    /\ enc_idx = 1
    /\ attempts = <<>>
    /\ df = NoTable
    /\ screen = <<>>
    /\ missing = <<>>
    /\ duplicate_count = 0
    /\ dup_rows = <<>>
    /\ numeric_cols = <<>>
    /\ cat_cols = <<>>
    /\ hist_col = 0
    /\ figures = 0
    /\ pdf_data = <<>>
    /\ pc = "csv"
    /\ runs = 1

\* ----------------------------------------------------------------- loading
NLines == Len(file.lines)

Utf8Family == {"utf-8", "utf-8-sig"}

\* Whether the bytes of a line decode under enc.
Decodes(enc, cls) == ~(enc \in Utf8Family /\ cls = "hi")

Undecodable(enc, p) == {i \in (p + 1)..NLines : ~Decodes(enc, file.lines[i].cls)}

Unterminated(p) == {i \in (p + 1)..NLines : file.lines[i].cls = "quote"}

Min(S) == CHOOSE x \in S : \A y \in S : x <= y

\* pd.read_csv(uploaded_file, encoding=enc) raises: nothing left to read
\* (EmptyDataError), an undecodable byte (UnicodeDecodeError) or a quoted
\* field open at end of input (ParserError).
ReadCsvRaises(enc, p) ==
    \/ p >= NLines
    \/ Undecodable(enc, p) # {}
    \/ Unterminated(p) # {}

\* Where a failed read leaves the stream: the reader pulls the input in
\* buffers, so it has consumed at least up to the offending byte and at most
\* everything; nothing in the script rewinds it.
PosAfterFailure(enc, p) ==
    IF p >= NLines THEN {p}
    ELSE IF Undecodable(enc, p) # {} THEN Min(Undecodable(enc, p))..NLines
    ELSE {NLines}

\* The table read_csv returns reading from position p: the first line read
\* is the header, the rest are the rows.
ReadCsv(p) ==
    [src |-> "csv", start |-> p, cols |-> file.cols,
     keys |-> [i \in 1..(NLines - p - 1) |-> file.lines[p + 1 + i].key]]

ReadExcel ==
    [src |-> "excel", start |-> 0, cols |-> file.sheetCols, keys |-> file.sheetKeys]

Attempt(name, ok) == [name |-> name, ok |-> ok]

\* The loop without its break: a success does not end the cascade.
CsvOkNoBreak ==
    /\ pc = "csv"
    /\ ~ReadCsvRaises(encodings_to_try[enc_idx], pos)
    /\ df' = ReadCsv(pos)
    /\ pos' = NLines
    /\ attempts' = Append(attempts, Attempt(encodings_to_try[enc_idx], TRUE))
    /\ screen' = Append(screen, <<"success", encodings_to_try[enc_idx]>>)
    /\ enc_idx' = IF enc_idx < Len(encodings_to_try) THEN enc_idx + 1 ELSE enc_idx
    /\ pc' = IF enc_idx < Len(encodings_to_try) THEN "csv" ELSE "dispatch"
    /\ UNCHANGED <<file, missing, duplicate_count, dup_rows, numeric_cols,
                   cat_cols, hist_col, figures, pdf_data, runs>>

\* for enc in encodings_to_try: try read_csv ... success, break
CsvOk ==
    /\ pc = "csv"
    /\ ~ReadCsvRaises(encodings_to_try[enc_idx], pos)
    /\ df' = ReadCsv(pos)
    /\ pos' = NLines
    /\ attempts' = Append(attempts, Attempt(encodings_to_try[enc_idx], TRUE))
    /\ screen' = Append(screen, <<"success", encodings_to_try[enc_idx]>>)
    /\ pc' = "dispatch"
    /\ UNCHANGED <<file, enc_idx, missing, duplicate_count, dup_rows, numeric_cols,
                   cat_cols, hist_col, figures, pdf_data, runs>>

\* ... except Exception: df = None; the loop goes on, or ends into the
\* spreadsheet attempt after the last encoding.
CsvFail ==
    /\ pc = "csv"
    /\ ReadCsvRaises(encodings_to_try[enc_idx], pos)
    /\ df' = NoTable
    /\ pos' \in PosAfterFailure(encodings_to_try[enc_idx], pos)
    /\ attempts' = Append(attempts, Attempt(encodings_to_try[enc_idx], FALSE))
    /\ enc_idx' = IF enc_idx < Len(encodings_to_try) THEN enc_idx + 1 ELSE enc_idx
    /\ pc' = IF enc_idx < Len(encodings_to_try) THEN "csv" ELSE "excel"
    /\ UNCHANGED <<file, screen, missing, duplicate_count, dup_rows, numeric_cols,
                   cat_cols, hist_col, figures, pdf_data, runs>>

\* if df is None: pd.read_excel(uploaded_file, engine="openpyxl").  The zip
\* reader seeks for itself, so the stream position does not matter to it.
ExcelOk ==
    /\ pc = "excel"
    /\ df = NoTable
    /\ file.kind = "xlsx"
    /\ df' = ReadExcel
    /\ attempts' = Append(attempts, Attempt("excel", TRUE))
    /\ screen' = Append(screen, <<"success", "excel">>)
    /\ pc' = "dispatch"
    /\ UNCHANGED <<file, pos, enc_idx, missing, duplicate_count, dup_rows, numeric_cols,
                   cat_cols, hist_col, figures, pdf_data, runs>>

ExcelFail ==
    /\ pc = "excel"
    /\ df = NoTable
    /\ file.kind # "xlsx"
    /\ df' = NoTable
    /\ attempts' = Append(attempts, Attempt("excel", FALSE))
    /\ pc' = "dispatch"
    /\ UNCHANGED <<file, pos, enc_idx, screen, missing, duplicate_count, dup_rows,
                   numeric_cols, cat_cols, hist_col, figures, pdf_data, runs>>

\* The error shown, and the rest of the script run all the same.
ShowErrorFallThrough ==
    /\ pc = "dispatch"
    /\ df = NoTable
    /\ screen' = Append(screen, <<"error", "unreadable">>)
    /\ pc' = "stats"
    /\ UNCHANGED <<file, pos, enc_idx, attempts, df, missing, duplicate_count, dup_rows,
                   numeric_cols, cat_cols, hist_col, figures, pdf_data, runs>>

\* if df is None: st.error(...)   (nothing else runs for this upload)
ShowError ==
    /\ pc = "dispatch"
    /\ df = NoTable
    /\ screen' = Append(screen, <<"error", "unreadable">>)
    /\ pc' = "done"
    /\ UNCHANGED <<file, pos, enc_idx, attempts, df, missing, duplicate_count, dup_rows,
                   numeric_cols, cat_cols, hist_col, figures, pdf_data, runs>>

\* ---------------------------------------------------------------- profile
NCols(d) == Len(d.cols)

ColSeq(d) == [c \in 1..NCols(d) |-> c]

IsNull(cell) == cell.t = "nan"

\* dtype inference: a column of numbers and blanks is float64 (so is a column
\* of blanks only), a column of True/False is bool, and a column holding a
\* string, or holding nothing, is object.
IsNumericCol(d, c) ==
    /\ Len(d.keys) > 0
    /\ \A i \in 1..Len(d.keys) : Column(d, c)[i].t \in {"num", "nan"}

AllNull(d, c) ==
    /\ Len(d.keys) > 0
    /\ \A i \in 1..Len(d.keys) : IsNull(Column(d, c)[i])

\* df.select_dtypes(include=['number']).columns.tolist()
NumericCols(d) == SelectSeq(ColSeq(d), LAMBDA c : IsNumericCol(d, c))

IsObjectCol(d, c) ==
    \/ Len(d.keys) = 0
    \/ \E i \in 1..Len(d.keys) : Column(d, c)[i].t = "str"

\* df.select_dtypes(include=['object', 'category']).columns.tolist()
CatCols(d) == SelectSeq(ColSeq(d), LAMBDA c : IsObjectCol(d, c))

\* df.isnull().sum()
Missing(d) ==
    [c \in 1..NCols(d) |-> Cardinality({i \in 1..Len(d.keys) : IsNull(Column(d, c)[i])})]

\* keep=False: every member of a group of equal rows is marked.
DuplicatedKeepNone(d) ==
    [i \in 1..Len(d.keys) |->
        \E j \in 1..Len(d.keys) : j # i /\ Rows(d)[j] = Rows(d)[i]]

\* df.duplicated(): keep='first', blanks compare equal to blanks.
Duplicated(d) ==
    [i \in 1..Len(d.keys) |-> \E j \in 1..(i - 1) : Rows(d)[j] = Rows(d)[i]]

\* The row numbers of df[df.duplicated()], in table order.
DupIndices(d) == SelectSeq([i \in 1..Len(d.keys) |-> i], LAMBDA i : Duplicated(d)[i])

\* df.duplicated().sum()
DuplicateCount(d) == Cardinality({i \in 1..Len(d.keys) : Duplicated(d)[i]})

Out(kind, detail) == <<kind, detail>>

\* st.write(df.head()), shape, columns
Preview ==
    /\ pc = "dispatch"
    /\ df # NoTable
    /\ screen' = screen \o <<Out("preview", "head"), Out("preview", "shape"),
                            Out("preview", "columns")>>
    /\ pc' = "stats"
    /\ UNCHANGED <<file, pos, enc_idx, attempts, df, missing, duplicate_count, dup_rows,
                   numeric_cols, cat_cols, hist_col, figures, pdf_data, runs>>

\* st.write(df.describe(include="all"))
SummaryStatistics ==
    /\ pc = "stats"
    /\ screen' = Append(screen, Out("stats", "describe"))
    /\ pc' = "missing"
    /\ UNCHANGED <<file, pos, enc_idx, attempts, df, missing, duplicate_count, dup_rows,
                   numeric_cols, cat_cols, hist_col, figures, pdf_data, runs>>

MissingValues ==
    /\ pc = "missing"
    /\ missing' = Missing(df)
    /\ screen' = Append(screen, Out("missing", "counts"))
    /\ pc' = "duplicates"
    /\ UNCHANGED <<file, pos, enc_idx, attempts, df, duplicate_count, dup_rows,
                   numeric_cols, cat_cols, hist_col, figures, pdf_data, runs>>

DuplicateValues ==
    /\ pc = "duplicates"
    /\ duplicate_count' = DuplicateCount(df)
    /\ IF DuplicateCount(df) > 0
       THEN /\ dup_rows' = DupIndices(df)
            /\ screen' = screen \o <<Out("duplicates", "count"), Out("duplicates", "rows")>>
       ELSE /\ dup_rows' = <<>>
            /\ screen' = Append(screen, Out("duplicates", "count"))
    /\ pc' = "hist"
    /\ UNCHANGED <<file, pos, enc_idx, attempts, df, missing, numeric_cols, cat_cols,
                   hist_col, figures, pdf_data, runs>>

\* ------------------------------------------------------- on-screen charts
Elems(s) == {s[i] : i \in 1..Len(s)}

\* fig, ax = plt.subplots(); sns.histplot(...); st.pyplot(fig)
\* The figure is handed to the page and never closed.
Histogram ==
    /\ pc = "hist"
    /\ numeric_cols' = NumericCols(df)
    /\ IF NumericCols(df) # <<>>
       THEN \E col \in Elems(NumericCols(df)) :
               /\ hist_col' = col
               /\ figures' = figures + 1
               /\ screen' = Append(screen, Out("pyplot", "hist"))
       ELSE /\ screen' = Append(screen, Out("warning", "hist"))
            /\ UNCHANGED <<hist_col, figures>>
    /\ pc' = "bar"
    /\ UNCHANGED <<file, pos, enc_idx, attempts, df, missing, duplicate_count, dup_rows,
                   cat_cols, pdf_data, runs>>

\* Drawing the bars of an empty value_counts() (a table without rows) is an
\* IndexError in some pandas versions and an empty chart in others.  Where it
\* raises, the exception ends the run with the figure allocated.
BarChartRaises ==
    /\ pc = "bar"
    /\ CatCols(df) # <<>>
    /\ Len(df.keys) = 0
    /\ cat_cols' = CatCols(df)
    /\ figures' = figures + 1
    /\ screen' = Append(screen, Out("exception", "bar"))
    /\ pc' = "done"
    /\ UNCHANGED <<file, pos, enc_idx, attempts, df, missing, duplicate_count, dup_rows,
                   numeric_cols, hist_col, pdf_data, runs>>

BarChart ==
    /\ pc = "bar"
    /\ cat_cols' = CatCols(df)
    /\ IF CatCols(df) # <<>>
       THEN \E bar_col \in Elems(CatCols(df)) :
               /\ figures' = figures + 1
               /\ screen' = Append(screen, Out("pyplot", "bar"))
       ELSE /\ screen' = Append(screen, Out("warning", "bar"))
            /\ UNCHANGED figures
    /\ pc' = "pie"
    /\ UNCHANGED <<file, pos, enc_idx, attempts, df, missing, duplicate_count, dup_rows,
                   numeric_cols, hist_col, pdf_data, runs>>

PieChart ==
    /\ pc = "pie"
    /\ IF cat_cols # <<>>
       THEN \E pie_col \in Elems(cat_cols) :
               /\ figures' = figures + 1
               /\ screen' = Append(screen, Out("pyplot", "pie"))
       ELSE /\ screen' = Append(screen, Out("warning", "pie"))
            /\ UNCHANGED figures
    /\ pc' = "scatter"
    /\ UNCHANGED <<file, pos, enc_idx, attempts, df, missing, duplicate_count, dup_rows,
                   numeric_cols, cat_cols, hist_col, pdf_data, runs>>

\* A selectbox without options yields None, and `if x_axis and y_axis` skips.
ScatterPlot ==
    /\ pc = "scatter"
    /\ IF numeric_cols # <<>>
       THEN \E x_axis \in Elems(numeric_cols), y_axis \in Elems(numeric_cols) :
               /\ figures' = figures + 1
               /\ screen' = Append(screen, Out("pyplot", "scatter"))
       ELSE UNCHANGED <<figures, screen>>
    /\ pc' = "pdf"
    /\ UNCHANGED <<file, pos, enc_idx, attempts, df, missing, duplicate_count, dup_rows,
                   numeric_cols, cat_cols, hist_col, pdf_data, runs>>

\* ------------------------------------------------------------- create_pdf
Block(type, role, data) == [type |-> type, role |-> role, data |-> data]

Spacer == Block("Spacer", "spacer", <<>>)

RECURSIVE Concat(_)
Concat(ss) == IF ss = <<>> THEN <<>> ELSE Head(ss) \o Concat(Tail(ss))

\* s[:n]
Slice(s, n) == SubSeq(s, 1, IF Len(s) < n THEN Len(s) ELSE n)

TitleBlocks == <<Block("Paragraph", "title", <<>>), Spacer>>

InfoBlocks(d) ==
    <<Block("Paragraph", "shape", <<Len(d.keys), NCols(d)>>),
      Block("Paragraph", "columns", ColSeq(d)), Spacer>>

MissingBlocks ==
    <<Block("Paragraph", "missing_heading", <<>>),
      Block("Table", "missing_table", missing), Spacer>>

\* dup_table = [header] + rows; Table(dup_table[:20]).  Row 0 is the header.
DuplicateBlocks(d) ==
    <<Block("Paragraph", "dup_heading", <<>>),
      Block("Paragraph", "dup_count", <<duplicate_count>>)>>
    \o (IF duplicate_count > 0
        THEN <<Block("Table", "dup_table", Slice(<<0>> \o DupIndices(d), DupSlice))>>
        ELSE <<>>)
    \o <<Spacer>>

\* df.describe(): the numeric columns, or every column when none is numeric.
DescribeCols(d) == IF NumericCols(d) # <<>> THEN NumericCols(d) ELSE ColSeq(d)

StatsBlocks(d) ==
    <<Block("Paragraph", "stats_heading", <<>>),
      Block("Table", "stats_table", DescribeCols(d)), Spacer>>

HistogramBlocksNoHeading ==
    Concat([i \in 1..Len(numeric_cols) |->
                <<Block("Image", "hist", <<numeric_cols[i]>>), Spacer>>])

HistogramBlocks ==
    IF numeric_cols # <<>>
    THEN <<Block("Paragraph", "hist_heading", <<>>)>>
         \o Concat([i \in 1..Len(numeric_cols) |->
                       <<Block("Image", "hist", <<numeric_cols[i]>>), Spacer>>])
    ELSE <<>>

BarPieBlocks ==
    IF cat_cols # <<>>
    THEN <<Block("Paragraph", "barpie_heading", <<>>)>>
         \o Concat([i \in 1..Len(cat_cols) |->
                       <<Block("Image", "bar", <<cat_cols[i]>>), Spacer,
                         Block("Image", "pie", <<cat_cols[i]>>), Spacer>>])
    ELSE <<>>

\* Every ordered pair of positions, the pair of a column with itself included.
Product2(s) ==
    Concat([i \in 1..Len(s) |-> [j \in 1..Len(s) |-> <<s[i], s[j]>>]])

\* itertools.combinations(s, 2)
RECURSIVE Combinations2(_)
Combinations2(s) ==
    IF Len(s) < 2 THEN <<>>
    ELSE [j \in 1..(Len(s) - 1) |-> <<s[1], s[j + 1]>>] \o Combinations2(Tail(s))

ScatterBlocks ==
    IF Len(numeric_cols) > 1
    THEN <<Block("Paragraph", "scatter_heading", <<>>)>>
         \o Concat([i \in 1..Len(Combinations2(numeric_cols)) |->
                       <<Block("Image", "scatter", Combinations2(numeric_cols)[i]), Spacer>>])
    ELSE <<>>

\* The summary statistics appended after the charts.
ElementsStatsLast(d) ==
    TitleBlocks \o InfoBlocks(d) \o MissingBlocks \o DuplicateBlocks(d)
    \o HistogramBlocks \o BarPieBlocks \o ScatterBlocks \o StatsBlocks(d)

\* elements, as create_pdf appends to it from top to bottom.
Elements(d) ==
    TitleBlocks \o InfoBlocks(d) \o MissingBlocks \o DuplicateBlocks(d) \o StatsBlocks(d)
    \o HistogramBlocks \o BarPieBlocks \o ScatterBlocks

Images(blocks) == SelectSeq(blocks, LAMBDA b : b.type = "Image")

\* In create_pdf every plt.subplots() is followed by plt.close(fig) before the
\* image is appended: one figure opened and one closed per image.
PdfFiguresOpened(d) == Len(Images(Elements(d)))

PdfFiguresClosed(d) == Len(Images(Elements(d)))

\* pdf_data = create_pdf()
CreatePdf ==
    /\ pc = "pdf"
    /\ pdf_data' = Elements(df)
    /\ figures' = figures + PdfFiguresOpened(df) - PdfFiguresClosed(df)
    /\ pc' = "download"
    /\ UNCHANGED <<file, pos, enc_idx, attempts, df, screen, missing, duplicate_count,
                   dup_rows, numeric_cols, cat_cols, hist_col, runs>>

DownloadButton ==
    /\ pc = "download"
    /\ screen' = Append(screen, Out("download", "pdf"))
    /\ pc' = "done"
    /\ UNCHANGED <<file, pos, enc_idx, attempts, df, missing, duplicate_count, dup_rows,
                   numeric_cols, cat_cols, hist_col, figures, pdf_data, runs>>

\* A widget interaction runs the script again from the top for the same
\* upload, in the same process: pyplot's open figures persist, the script's
\* variables do not.  The upload is handed over either rewound or as the
\* previous run left it.
Rerun ==
    /\ pc = "done"
    /\ runs < MaxRuns
    /\ runs' = runs + 1
    /\ pos' \in {0, pos}
    /\ enc_idx' = 1
    /\ attempts' = <<>>
    /\ df' = NoTable
    /\ screen' = <<>>
    /\ missing' = <<>>
    /\ duplicate_count' = 0
    /\ dup_rows' = <<>>
    /\ numeric_cols' = <<>>
    /\ cat_cols' = <<>>
    /\ hist_col' = 0
    /\ pdf_data' = <<>>
    /\ pc' = "csv"
    /\ UNCHANGED <<file, figures>>

Next ==
    \/ CsvOk
    \/ CsvFail
    \/ ExcelOk
    \/ ExcelFail
    \/ ShowError
    \/ Preview
    \/ SummaryStatistics
    \/ MissingValues
    \/ DuplicateValues
    \/ Histogram
    \/ BarChart
    \/ BarChartRaises
    \/ PieChart
    \/ ScatterPlot
    \/ CreatePdf
    \/ DownloadButton
    \/ Rerun

\* ------------------------------------------------------------------ claims
CascadeOrder == <<"utf-8", "utf-8-sig", "latin1", "ISO-8859-1", "cp1252", "excel">>

Loading == pc \in {"csv", "excel"}

FailedUpTo(n) == \A i \in 1..n : ~attempts[i].ok

Built == pdf_data # <<>>

\* C1: the load attempts of a run follow the fixed order utf-8, utf-8-sig,
\* latin1, ISO-8859-1, cp1252, spreadsheet; an attempt is made only after
\* every earlier one failed, so the first success is the last attempt; the
\* table and the encoding reported are those of the attempt that succeeded;
\* and the spreadsheet is attempted exactly when all five text attempts failed.
C1_Cascade ==
    /\ Len(attempts) <= Len(CascadeOrder)
    /\ \A i \in 1..Len(attempts) :
          /\ attempts[i].name = CascadeOrder[i]
          /\ FailedUpTo(i - 1)
    /\ ~Loading =>
          /\ Len(attempts) > 0
          /\ (Len(attempts) = 6) <=> (Len(attempts) >= 5 /\ FailedUpTo(5))
          /\ IF attempts[Len(attempts)].ok
             THEN /\ df # NoTable
                  /\ df.src = (IF Len(attempts) = 6 THEN "excel" ELSE "csv")
                  /\ screen[1] = <<"success", attempts[Len(attempts)].name>>
             ELSE /\ df = NoTable
                  /\ Len(attempts) = 6
                  /\ \A k \in 1..Len(screen) : screen[k][1] # "success"

\* The third attempt (latin1) wins after utf-8 and utf-8-sig failed.
C1_Witness ==
    /\ pc = "done"
    /\ Len(attempts) = 3
    /\ attempts[3].ok
    /\ ~attempts[1].ok /\ ~attempts[2].ok
    /\ screen[1] = <<"success", "latin1">>

AllFailed == Len(attempts) = 6 /\ FailedUpTo(6)

\* C2: when all six load attempts failed, the run shows the error and stops:
\* nothing but the error is written to the page, no document is built and
\* no later stage is entered.
C2_AbortOnFailure ==
    AllFailed =>
       /\ pc \in {"dispatch", "done"}
       /\ pdf_data = <<>>
       /\ df = NoTable
       /\ pc = "dispatch" => screen = <<>>
       /\ pc = "done" => screen = <<<<"error", "unreadable">>>>

C2_Witness == AllFailed /\ pc = "done" /\ Len(file.lines) > 1

Profiled == pc \in {"hist", "bar", "pie", "scatter", "pdf", "download", "done"} /\ df # NoTable

StrictlyIncreasing(s) == \A i \in 1..(Len(s) - 1) : s[i] < s[i + 1]

\* C3: a row is marked duplicate exactly when an earlier row equals it in
\* every column; duplicate_count is the number of marked rows, which is the
\* row count minus the number of distinct rows; the marked rows are listed
\* in table order.
C3_Duplicates ==
    Profiled =>
       LET R == Rows(df)
           n == Len(R)
           marked == {dup_rows[k] : k \in 1..Len(dup_rows)}
       IN  /\ duplicate_count = n - Cardinality({R[i] : i \in 1..n})
           /\ Len(dup_rows) = duplicate_count
           /\ StrictlyIncreasing(dup_rows)
           /\ \A i \in 1..n : (i \in marked) <=> (\E j \in 1..(i - 1) : R[j] = R[i])

\* Rows (1,x),(2,y),(1,x): only the third row is marked.
C3_Witness ==
    /\ Profiled
    /\ df.cols = <<"num", "cat">>
    /\ df.keys = <<1, 2, 1>>
    /\ duplicate_count = 1
    /\ dup_rows = <<3>>

WithRole(blocks, r) == SelectSeq(blocks, LAMBDA b : b.role = r)

\* C4: the report's duplicate sample table holds the header row and the first
\* 20 duplicate rows in table order (all of them when there are fewer), and
\* is present exactly when duplicate_count > 0.
C4_First20Duplicates ==
    Built =>
       LET t == WithRole(pdf_data, "dup_table")
       IN  /\ Len(t) = (IF duplicate_count > 0 THEN 1 ELSE 0)
           /\ Len(t) = 1 => t[1].data = <<0>> \o Slice(DupIndices(df), 20)

NonSpacer(blocks) == SelectSeq(blocks, LAMBDA b : b.type # "Spacer")

ChartRoles == {"hist_heading", "hist", "barpie_heading", "bar", "pie", "scatter_heading", "scatter"}

FrontRoles ==
    <<"title", "shape", "columns", "missing_heading", "missing_table", "dup_heading", "dup_count">>
    \o (IF duplicate_count > 0 THEN <<"dup_table">> ELSE <<>>)
    \o <<"stats_heading", "stats_table">>

\* C5: a built document starts with title, shape, columns, missing-values
\* heading and table, duplicate heading, count (and sample table when there
\* are duplicates), summary-statistics heading and table, in this order and
\* whether or not charts follow; every block after them belongs to a chart
\* section, so no image precedes the summary-statistics table.
C5_SectionOrder ==
    Built =>
       LET B == NonSpacer(pdf_data)
       IN  /\ Len(B) >= Len(FrontRoles)
           /\ [i \in 1..Len(FrontRoles) |-> B[i].role] = FrontRoles
           /\ \A i \in 1..Len(FrontRoles) : B[i].type # "Image"
           /\ \A i \in (Len(FrontRoles) + 1)..Len(B) : B[i].role \in ChartRoles

C5_Witness == Built /\ Len(Images(pdf_data)) >= 3 /\ duplicate_count > 0

C5_WitnessNoCharts == Built /\ Images(pdf_data) = <<>>

\* The index of the nearest block before i that satisfies P, 0 if none.
PrevIndex(blocks, i, P(_)) ==
    LET S == {j \in 1..(i - 1) : P(blocks[j])}
    IN  IF S = {} THEN 0 ELSE CHOOSE j \in S : \A k \in S : k <= j

IsNonSpacer(b) == b.type # "Spacer"

IsParagraph(b) == b.type = "Paragraph"

ImageIndices(blocks) == {i \in 1..Len(blocks) : blocks[i].type = "Image"}

\* C6 as stated: every image has a caption paragraph of its own right before
\* it: the nearest non-spacer block before an image is a paragraph, and no
\* two images share their nearest preceding paragraph.
C6_CaptionPerImage ==
    Built =>
       /\ \A i \in ImageIndices(pdf_data) :
             /\ PrevIndex(pdf_data, i, IsNonSpacer) # 0
             /\ pdf_data[PrevIndex(pdf_data, i, IsNonSpacer)].type = "Paragraph"
       /\ \A i, j \in ImageIndices(pdf_data) :
             i # j => PrevIndex(pdf_data, i, IsParagraph) # PrevIndex(pdf_data, j, IsParagraph)

SectionHeading(role) ==
    CASE role = "hist" -> "hist_heading"
      [] role \in {"bar", "pie"} -> "barpie_heading"
      [] role = "scatter" -> "scatter_heading"
      [] OTHER -> "none"

\* C6 amended: every image is preceded by the heading paragraph of its chart
\* section, one per section and shared by the images of the section: the
\* nearest paragraph before an image is its section's heading, and the
\* nearest non-spacer block before it is that heading or another image of
\* the same section.
C6_SectionHeadingPerImage ==
    Built =>
       \A i \in ImageIndices(pdf_data) :
          LET h == PrevIndex(pdf_data, i, IsParagraph)
              q == PrevIndex(pdf_data, i, IsNonSpacer)
          IN  /\ h # 0
              /\ pdf_data[h].role = SectionHeading(pdf_data[i].role)
              /\ q = h \/ (pdf_data[q].type = "Image"
                           /\ SectionHeading(pdf_data[q].role) = SectionHeading(pdf_data[i].role))

\* Two histograms under one heading.
C6_Witness ==
    /\ Built
    /\ Len(WithRole(pdf_data, "hist")) >= 2
    /\ Len(WithRole(pdf_data, "hist_heading")) = 1

\* C7: with n numeric columns the document holds one scatter image for each
\* pair of numeric columns x before y, n*(n-1)/2 in all, none of a column
\* with itself and none twice; with n < 2 there is neither a scatter heading
\* nor a scatter image.
C7_ScatterPairs ==
    Built =>
       LET num == NumericCols(df)
           n == Len(num)
           S == WithRole(pdf_data, "scatter")
       IN  /\ 2 * Len(S) = n * (n - 1)
           /\ {S[k].data : k \in 1..Len(S)} = 
                 {<<num[q[1]], num[q[2]]>> : q \in {r \in (1..n) \X (1..n) : r[1] < r[2]}}
           /\ \A k \in 1..Len(S) : S[k].data[1] < S[k].data[2]
           /\ n < 2 => S = <<>> /\ WithRole(pdf_data, "scatter_heading") = <<>>
           /\ n >= 2 => Len(WithRole(pdf_data, "scatter_heading")) = 1

C7_Witness == Built /\ Len(NumericCols(df)) = 3 /\ Len(WithRole(pdf_data, "scatter")) = 3

\* C8: when a run of the script has ended, no figure is left open.
C8_NoOpenFigures == pc = "done" => figures = 0

\* C9: a histogram of a column whose values are all null yields no image,
\* neither on the page nor in the report.
C9_NullHistogramRejected ==
    /\ (hist_col # 0 /\ AllNull(df, hist_col)) =>
          \A k \in 1..Len(screen) : screen[k] # <<"pyplot", "hist">>
    /\ Built =>
          \A k \in 1..Len(pdf_data) :
             pdf_data[k].role = "hist" => ~AllNull(df, pdf_data[k].data[1])

\* C10: a table loaded as delimited text is the parse of the whole upload,
\* read from its first byte.
C10_WholeFileParsed == df.src = "csv" => df.start = 0 /\ Len(df.keys) = Len(file.lines) - 1

Spec == Init /\ [][Next]_vars
====
